---------------------------- MODULE Spec2Model ----------------------------
(***************************************************************************)
(* State-machine model of arb-avm-cpp's token tracker                      *)
(* (packages/arb-avm-cpp/avm/src/tokenTracker.cpp): the BalanceTracker     *)
(* ledger (tokenLookup / nftLookup), its byte serialisation, and the       *)
(* BlockReason serialisation.                                              *)
(*                                                                         *)
(* A uint256_t is kept as UINT256_SIZE base-256 limbs, least significant   *)
(* limb first, so that += and -= are the 256-bit modular operations of the *)
(* C++ type; to_big_endian / from_big_endian reverse the limbs into wire   *)
(* order.  A TokenType is its 21 bytes.  Byte buffers are sequences of     *)
(* bytes; C++ offset k is sequence index k + 1.                            *)
(***************************************************************************)
EXTENDS Integers, Sequences, FiniteSets, TLC

\* ------------------------------------------------------------- bounds
\* number of ledger / codec operations in one run
MaxOps == 3
\* fungible token identities Tok(1,0) .. Tok(MaxFungible,0); there is one
\* non-fungible class, Tok(1,1), whose assets are told apart by their ids
MaxFungible == 2
\* small amounts 0 .. MaxAmt (2^256 - 1 is always among the amounts)
MaxAmt == 1

\* --------------------------------------------------- program constants
\* std::array<unsigned char, 21> token_type
TokenTypeLen == 21
\* tok[20] is the fungible / non-fungible discriminator
DiscriminatorIndex == 20
\* std::array<unsigned char, 32>: the bytes of a uint256_t
UINT256_SIZE == 32
\* a marshalled uint256_t: value_vector(current_it, current_it + 33)
MarshalledLen == 33
\* sizeof(unsigned int): the count header of a serialised ledger
HeaderLen == 4
\* the ValueTypes code marshal_uint256_t writes before the magnitude
NUM == 0
\* inbox_vector(current_it + 1, current_it + 32): the window copied out
PayloadSkip == 1
PayloadEnd == 32
\* base of one limb / number of values of an unsigned char
ByteBase == 256

Byte == 0 .. (ByteBase - 1)

\* ------------------------------------------------------------ uint256_t
Zero == [i \in 1..UINT256_SIZE |-> 0]

MaxU256 == [i \in 1..UINT256_SIZE |-> ByteBase - 1]

\* the uint256_t of a small natural (n < 2^16)
FromNat(n) == [i \in 1..UINT256_SIZE |->
                 IF i = 1 THEN n % ByteBase
                 ELSE IF i = 2 THEN (n \div ByteBase) % ByteBase
                 ELSE 0]

\* the limbs of x + y from limb i up with carry c in, then the carry out
RECURSIVE AddLimbs(_, _, _, _)
AddLimbs(x, y, i, c) ==
  IF i > UINT256_SIZE THEN <<c>>
  ELSE <<(x[i] + y[i] + c) % ByteBase>>
       \o AddLimbs(x, y, i + 1, (x[i] + y[i] + c) \div ByteBase)

\* UINT256_SIZE limbs and the carry / borrow out of the last one
SplitLimbs(r) == [limbs |-> SubSeq(r, 1, UINT256_SIZE), out |-> r[UINT256_SIZE + 1]]

\* x + y as uint256_t computes it: the low 256 bits (limbs), and the carry
\* the type drops (out)
AddU256(x, y) == SplitLimbs(AddLimbs(x, y, 1, 0))

\* the limbs of x - y from limb i up with borrow b in, then the borrow out
RECURSIVE SubLimbs(_, _, _, _)
SubLimbs(x, y, i, b) ==
  IF i > UINT256_SIZE THEN <<b>>
  ELSE <<(x[i] - y[i] - b) % ByteBase>>
       \o SubLimbs(x, y, i + 1, IF x[i] - y[i] - b < 0 THEN 1 ELSE 0)

\* x - y as uint256_t computes it: modulo 2^256 (limbs), and the borrow
\* the type drops (out)
SubU256(x, y) == SplitLimbs(SubLimbs(x, y, 1, 0))

\* x <= y on uint256_t
LeqU256(x, y) == SubU256(y, x).out = 0

\* to_big_endian: most significant byte first
to_big_endian(v) == [i \in 1..UINT256_SIZE |-> v[UINT256_SIZE + 1 - i]]

\* from_big_endian over UINT256_SIZE bytes
from_big_endian(bytes) == [i \in 1..UINT256_SIZE |-> bytes[UINT256_SIZE + 1 - i]]

\* ------------------------------------------------------------ TokenType
Tok(a, k) == [i \in 1..TokenTypeLen |->
                IF i = 1 THEN a ELSE IF i = TokenTypeLen THEN k ELSE 0]

FungibleTypes == {Tok(a, 0) : a \in 1..MaxFungible}

NftTypes == {Tok(1, 1)}

TokenTypes == FungibleTypes \cup NftTypes

Amounts == {FromNat(n) : n \in 0..MaxAmt} \cup {MaxU256}

isToken(tok) == tok[DiscriminatorIndex + 1] = 0

\* ------------------------------------------------------- state
VARIABLES
  tokenLookup,  \* BalanceTracker::tokenLookup: TokenType -> uint256_t
  nftLookup,    \* BalanceTracker::nftLookup: set of nftKey {tokenType, intVal}
  last,         \* the last operation: its arguments, its outcome, what it found
  wrapped,      \* history: some += of add dropped a carry out of bit 255
  steps,        \* ledger operations performed so far
  pc,           \* "run"; "saved": buf awaits its restore; "undefined": a
                \* restore has read out of bounds
  buf,          \* the byte buffer handed to the restoring constructor
  bufSrc,       \* history: the ledger buf was serialised from (or "none")
  reason,       \* the BlockReason last serialised
  wire,         \* the byte buffer handed to deserializeBlockReason
  decoded       \* the outcome of the last deserializeBlockReason

vars == <<tokenLookup, nftLookup, last, wrapped, steps, pc, buf, bufSrc,
          reason, wire, decoded>>

ledgerVars == <<tokenLookup, nftLookup, wrapped>>

codecVars == <<buf, bufSrc>>

blockVars == <<reason, wire, decoded>>

\* --------------------------------------------------- outcomes of a call
Returned(b) == [kind |-> "bool", b |-> b, v |-> Zero]

Value(v) == [kind |-> "value", b |-> FALSE, v |-> v]

Void == [kind |-> "void", b |-> FALSE, v |-> Zero]

\* std::out_of_range thrown by unordered_map::at
OutOfRange == [kind |-> "out_of_range", b |-> FALSE, v |-> Zero]

NftKey(tokType, id) == [tokenType |-> tokType, intVal |-> id]

\* ------------------------------------------------------ BalanceTracker
\* tokenLookup.at(tokType): the stored value, or std::out_of_range
tokenValue(tl, tokType) ==
  IF tokType \in DOMAIN tl THEN Value(tl[tokType]) ELSE OutOfRange

hasNFT(nl, tokType, id) == NftKey(tokType, id) \in nl

\* amount <= held, unless the lookup of held threw
WithinHeld(held, amount) ==
  IF held.kind = "out_of_range" THEN OutOfRange
  ELSE Returned(LeqU256(amount, held.v))

\* canSpend: an exception of tokenValue propagates
canSpend(tl, nl, tokType, amount) ==
  IF isToken(tokType)
  THEN WithinHeld(tokenValue(tl, tokType), amount)
  ELSE Returned(hasNFT(nl, tokType, amount))

Unchanged(ret, tl, nl) == [ret |-> ret, tokenLookup |-> tl, nftLookup |-> nl]

\* the body of spend after canSpend answered can, with the erase left out
spendChecked_keepsAsset(can, tl, nl, tokType, amount) ==
  IF can.kind = "out_of_range" THEN Unchanged(can, tl, nl)
  ELSE IF ~can.b THEN Unchanged(Returned(FALSE), tl, nl)
  ELSE IF isToken(tokType)
  THEN [ret |-> Returned(TRUE),
        tokenLookup |-> [tl EXCEPT ![tokType] = SubU256(@, amount).limbs],
        nftLookup |-> nl]
  ELSE Unchanged(Returned(TRUE), tl, nl)

\* the body of spend after canSpend answered can: the outcome and the ledger
spendChecked(can, tl, nl, tokType, amount) ==
  IF can.kind = "out_of_range" THEN Unchanged(can, tl, nl)
  ELSE IF ~can.b THEN Unchanged(Returned(FALSE), tl, nl)
  ELSE IF isToken(tokType)
  THEN [ret |-> Returned(TRUE),
        tokenLookup |-> [tl EXCEPT ![tokType] = SubU256(@, amount).limbs],
        nftLookup |-> nl]
  ELSE [ret |-> Returned(TRUE),
        tokenLookup |-> tl,
        nftLookup |-> nl \ {NftKey(tokType, amount)}]

spend(tl, nl, tokType, amount) ==
  spendChecked(canSpend(tl, nl, tokType, amount), tl, nl, tokType, amount)

\* insertion.first->second += amount, s being the sum and its carry
Stored(tl, nl, tokType, s) ==
  [tokenLookup |-> [t \in DOMAIN tl \cup {tokType} |->
                      IF t = tokType THEN s.limbs ELSE tl[t]],
   nftLookup |-> nl, carry |-> s.out]

\* the balance add starts from: the entry, or the zero it inserts
Inserted(tl, tokType) == IF tokType \in DOMAIN tl THEN tl[tokType] ELSE Zero

\* add without the isToken dispatch: every identity gets a balance entry
add_noDispatch(tl, nl, tokType, amount) ==
  Stored(tl, nl, tokType, AddU256(Inserted(tl, tokType), amount))

\* add: the ledger after it, and the carry its += dropped
add(tl, nl, tokType, amount) ==
  IF isToken(tokType)
  THEN Stored(tl, nl, tokType, AddU256(Inserted(tl, tokType), amount))
  ELSE [tokenLookup |-> tl,
        nftLookup |-> nl \cup {NftKey(tokType, amount)}, carry |-> 0]

\* what an operation on (tokType, amount) finds: the stored balance (zero
\* when there is no entry) and whether the entry / the asset is there
Found(tl, nl, tokType, amount) ==
  IF isToken(tokType)
  THEN [v |-> IF tokType \in DOMAIN tl THEN tl[tokType] ELSE Zero,
        had |-> tokType \in DOMAIN tl]
  ELSE [v |-> Zero, had |-> hasNFT(nl, tokType, amount)]

\* the previous operation, when it was an add or a spend of the same
\* (tokType, amount): "add", "spend", or "add,spend" for a spend that itself
\* came right after an add of the same; "other" otherwise
After(tokType, amount) ==
  IF last.op \in {"add", "spend"} /\ last.tok = tokType /\ last.amt = amount
  THEN IF last.op = "spend" /\ last.after = "add" THEN "add,spend" ELSE last.op
  ELSE "other"

Record(op, tokType, amount, ret) ==
  [op |-> op, tok |-> tokType, amt |-> amount, ret |-> ret,
   before |-> Found(tokenLookup, nftLookup, tokType, amount),
   after |-> After(tokType, amount), src |-> "none"]

NoOp == [op |-> "none", tok |-> Tok(0, 0), amt |-> Zero, ret |-> Void,
         before |-> [v |-> Zero, had |-> FALSE], after |-> "other",
         src |-> "none"]

Running == pc = "run" /\ steps < MaxOps

\* the history of a step whose arguments the specification does not follow
Brief(op, ret) == [NoOp EXCEPT !.op = op, !.ret = ret]

\* add(tokType, amount); detail: whether the history keeps the arguments
AddStep(tokType, amount, detail) ==
  /\ Running
  /\ \E r \in {add(tokenLookup, nftLookup, tokType, amount)} :
        /\ tokenLookup' = r.tokenLookup
        /\ nftLookup' = r.nftLookup
        /\ wrapped' = (wrapped \/ r.carry = 1)
  /\ last' = IF detail THEN Record("add", tokType, amount, Void)
             ELSE Brief("add", Void)
  /\ steps' = steps + 1
  /\ UNCHANGED <<pc, codecVars, blockVars>>

Add(tokType, amount) == AddStep(tokType, amount, TRUE)

\* spend(tokType, amount); detail: whether the history keeps the arguments
SpendStep(tokType, amount, detail) ==
  /\ Running
  /\ \E r \in {spend(tokenLookup, nftLookup, tokType, amount)} :
        /\ tokenLookup' = r.tokenLookup
        /\ nftLookup' = r.nftLookup
        /\ last' = IF detail THEN Record("spend", tokType, amount, r.ret)
                   ELSE Brief("spend", r.ret)
  /\ steps' = steps + 1
  /\ UNCHANGED <<wrapped, pc, codecVars, blockVars>>

Spend(tokType, amount) == SpendStep(tokType, amount, TRUE)

\* tokenValue asserts isToken(tokType): it is called on fungible identities
TokenValue(tokType) ==
  /\ Running
  /\ isToken(tokType)
  /\ last' = Record("tokenValue", tokType, Zero, tokenValue(tokenLookup, tokType))
  /\ steps' = steps + 1
  /\ UNCHANGED <<ledgerVars, pc, codecVars, blockVars>>

\* hasNFT asserts !isToken(tokType): it is called on non-fungible identities
HasNFT(tokType, id) ==
  /\ Running
  /\ ~isToken(tokType)
  /\ last' = Record("hasNFT", tokType, id,
                    Returned(hasNFT(nftLookup, tokType, id)))
  /\ steps' = steps + 1
  /\ UNCHANGED <<ledgerVars, pc, codecVars, blockVars>>

CanSpend(tokType, amount) ==
  /\ Running
  /\ last' = Record("canSpend", tokType, amount,
                    canSpend(tokenLookup, nftLookup, tokType, amount))
  /\ steps' = steps + 1
  /\ UNCHANGED <<ledgerVars, pc, codecVars, blockVars>>

\* ------------------------------------------------- integer wire format
\* marshal_uint256_t: the NUM type code, then the 32 bytes most significant first
marshal_uint256_t(v) == <<NUM>> \o to_big_endian(v)

\* the byte at C++ offset k of vec; g is what a read past vec.end() finds
ReadByte(vec, k, g) == IF k < Len(vec) THEN vec[k + 1] ELSE g

\* the len bytes of vec from offset from on
Window(vec, from, len, g) == [i \in 1..len |-> ReadByte(vec, from + i - 1, g)]

\* deserialize_int256 on a marshalled integer: the type code at offset 0 is
\* passed over, the UINT256_SIZE bytes after it are the magnitude
deserialize_int256(vec, g) == from_big_endian(Window(vec, 1, UINT256_SIZE, g))

\* ---------------------------------------------------- ledger wire format
\* one serialised entry: the identity, then the marshalled amount
EntryLen == TokenTypeLen + MarshalledLen

\* memcpy of an unsigned int: its HeaderLen bytes, least significant first
LengthVector(n) == [i \in 1..HeaderLen |-> (n \div ByteBase ^ (i - 1)) % ByteBase]

\* the orders in which the unordered_map may be iterated
Orders(S) == {o \in [1..Cardinality(S) -> S] :
                \A i, j \in 1..Cardinality(S) : o[i] = o[j] => i = j}

RECURSIVE SerializeEntries(_, _)
SerializeEntries(tl, order) ==
  IF order = << >> THEN << >>
  ELSE Head(order) \o marshal_uint256_t(tl[Head(order)])
       \o SerializeEntries(tl, Tail(order))

\* serializeBalanceValues: the count, then one entry per tokenLookup pair
serializeBalanceValues(tl, order) ==
  LengthVector(Cardinality(DOMAIN tl)) \o SerializeEntries(tl, order)

\* the loop of the restoring constructor from offset it on: it stops when it
\* meets data.end(); an entry that does not fit is read past data.end()
RECURSIVE RestoreLoop(_, _, _, _, _)
\* the next iteration, after an add that left the ledger r
Continue(data, it, r, w) ==
  RestoreLoop(data, it, r.tokenLookup, r.nftLookup, w \/ r.carry = 1)

RestoreLoop(data, it, tl, nl, w) ==
  IF it = Len(data)
  THEN [status |-> "ok", tokenLookup |-> tl, nftLookup |-> nl,
        wrapped |-> w, at |-> it]
  ELSE IF it + EntryLen <= Len(data)
  THEN LET token_type   == Window(data, it, TokenTypeLen, 0)
           value_vector == Window(data, it + TokenTypeLen, MarshalledLen, 0)
           currency_val == deserialize_int256(value_vector, 0)
       IN Continue(data, it + EntryLen,
                   add(tl, nl, token_type, currency_val), w)
  ELSE [status |-> "undefined", tokenLookup |-> tl, nftLookup |-> nl,
        wrapped |-> w, at |-> it]

\* the constructor with the loop started at data.begin()
BalanceTrackerFromBytes_noHeaderSkip(data) ==
  RestoreLoop(data, 0, << >>, {}, FALSE)

\* BalanceTracker(std::vector<unsigned char> data)
BalanceTrackerFromBytes(data) ==
  RestoreLoop(data, HeaderLen, << >>, {}, FALSE)

\* what stale memory past the end of a buffer may hold: any byte, the same
\* one at every offset read
Garbage == Byte

Entry(tokType, amount) == tokType \o marshal_uint256_t(amount)

\* buffers the decoder accepts entry by entry: any identity, a count that
\* may or may not match, an identity that may repeat
WellFormedBuffers ==
  {LengthVector(0)}
  \cup {LengthVector(0) \o Entry(t, FromNat(1)) : t \in TokenTypes}
  \cup {LengthVector(2) \o Entry(t, MaxU256) \o Entry(t, FromNat(1)) :
          t \in FungibleTypes}

\* a buffer cut short by k bytes
Cut(b, k) == SubSeq(b, 1, Len(b) - k)

\* buffers shorter than the header, or whose entries do not fill them
MalformedBuffers ==
  {<< >>, Cut(LengthVector(0), 1)}
  \cup {Cut(LengthVector(1) \o Entry(t, MaxU256), k) :
          t \in TokenTypes, k \in {1, EntryLen - 1}}

Malformed(b) == Len(b) < HeaderLen \/ (Len(b) - HeaderLen) % EntryLen # 0

NoSource == [kind |-> "none", tokenLookup |-> << >>, nftLookup |-> {}]

\* serializeBalanceValues() of the ledger: a checkpoint.  The restoring
\* constructor builds its ledger from buf alone, so what the serialising
\* ledger does after the checkpoint is not followed
Serialize(order) ==
  /\ pc = "run"
  /\ buf' = serializeBalanceValues(tokenLookup, order)
  /\ bufSrc' = [kind |-> "ledger", tokenLookup |-> tokenLookup,
                nftLookup |-> nftLookup]
  /\ last' = Brief("serialize", Void)
  /\ pc' = "saved"
  /\ UNCHANGED <<ledgerVars, steps, blockVars>>

\* bytes from outside (a checkpoint file) are to be restored: the first
\* thing a run does, if it does it
Supply(b) ==
  /\ pc = "run"
  /\ steps = 0 /\ last.op = "none"
  /\ buf' = b
  /\ bufSrc' = [NoSource EXCEPT !.kind = "external"]
  /\ last' = Brief("supply", Void)
  /\ pc' = "saved"
  /\ UNCHANGED <<ledgerVars, steps, blockVars>>

Outcome(kind) == [kind |-> kind, b |-> FALSE, v |-> Zero]

Restored(kind) ==
  [Brief("restore", Outcome(kind)) EXCEPT !.src = bufSrc.kind]

\* the entry at offset it of data, the bytes past data.end() read as g, added
GarbageEntry(r, data, g) ==
  add(r.tokenLookup, r.nftLookup, Window(data, r.at, TokenTypeLen, g),
      deserialize_int256(Window(data, r.at + TokenTypeLen, MarshalledLen, g),
                         g))

\* BalanceTracker(buf) replaces the ledger and uses the buffer up.  When the
\* loop reads past the end of buf the behaviour is undefined: the process
\* dies in the copy, or the entry is completed from stale memory and added
\* before it does
Restore ==
  /\ pc = "saved"
  /\ \E r \in {BalanceTrackerFromBytes(buf)} :
        \/ /\ r.status = "ok"
           /\ tokenLookup' = r.tokenLookup
           /\ nftLookup' = r.nftLookup
           /\ wrapped' = (wrapped \/ r.wrapped)
           /\ last' = Restored("ok")
           /\ pc' = "run"
        \/ /\ r.status = "undefined"
           /\ tokenLookup' = r.tokenLookup
           /\ nftLookup' = r.nftLookup
           /\ wrapped' = (wrapped \/ r.wrapped)
           /\ last' = Restored("crash")
           /\ pc' = "undefined"
        \/ /\ r.status = "undefined"
           /\ \E g \in Garbage : \E a \in {GarbageEntry(r, buf, g)} :
                /\ tokenLookup' = a.tokenLookup
                /\ nftLookup' = a.nftLookup
                /\ wrapped' = (wrapped \/ r.wrapped \/ a.carry = 1)
           /\ last' = Restored("garbage")
           /\ pc' = "undefined"
  /\ buf' = << >>
  /\ bufSrc' = NoSource
  /\ UNCHANGED <<steps, blockVars>>

\* ------------------------------------------------------------ BlockReason
\* enum BlockType, in the order of the blockreason_type_length table
BlockType == [Not |-> 0, Halt |-> 1, Error |-> 2, Breakpoint |-> 3,
              Inbox |-> 4, Send |-> 5]

KnownTags == {BlockType.Not, BlockType.Halt, BlockType.Error,
              BlockType.Breakpoint, BlockType.Inbox, BlockType.Send}

\* blockreason_type_length: the serialised length of each variant
blockreason_type_length(tag) ==
  IF tag = BlockType.Inbox THEN 1 + MarshalledLen
  ELSE IF tag = BlockType.Send THEN 1 + MarshalledLen + TokenTypeLen
  ELSE 1

NoBlock == [tag |-> "none", inbox |-> Zero, currency |-> Zero,
            tokenType |-> Tok(0, 0)]

Plain(tag) == [NoBlock EXCEPT !.tag = tag]

InboxBlocked(inbox) == [NoBlock EXCEPT !.tag = BlockType.Inbox, !.inbox = inbox]

SendBlocked(currency, tokType) ==
  [NoBlock EXCEPT !.tag = BlockType.Send, !.currency = currency,
                  !.tokenType = tokType]

PlainReasons == {Plain(BlockType.Not), Plain(BlockType.Halt),
                 Plain(BlockType.Error), Plain(BlockType.Breakpoint)}

BlockReasons ==
  PlainReasons
  \cup {InboxBlocked(i) : i \in Amounts}
  \cup {SendBlocked(c, t) : c \in Amounts, t \in TokenTypes}

\* BlockSerializer: the tag, then the variant's fields
SerializeBlockReason(val) ==
  IF val.tag = BlockType.Inbox
  THEN <<val.tag>> \o marshal_uint256_t(val.inbox)
  ELSE IF val.tag = BlockType.Send
  THEN <<val.tag>> \o marshal_uint256_t(val.currency) \o val.tokenType
  ELSE <<val.tag>>

\* std::vector(current_it + 1, current_it + 32), current_it being at offset 1
PayloadVector(data, g) ==
  Window(data, 1 + PayloadSkip, PayloadEnd - PayloadSkip, g)

NoOutcome == [kind |-> "none", reason |-> NoBlock, oob |-> FALSE]

Decoded(r, oob) == [kind |-> "reason", reason |-> r, oob |-> oob]

\* deserializeBlockReason, a read past the end of a vector finding g.
\* oob: some read was past the end of data or of the payload vector;
\* "noreturn": the switch matched no case and the function ran off its end
deserializeBlockReason(data, g) ==
  LET blocktype == ReadByte(data, 0, g)
      pastTag   == Len(data) = 0
      pastVec   == 1 + PayloadEnd > Len(data)
                   \/ PayloadEnd - PayloadSkip < MarshalledLen
  IN IF blocktype = BlockType.Inbox
     THEN Decoded(InboxBlocked(deserialize_int256(PayloadVector(data, g), g)),
                  pastTag \/ pastVec)
     ELSE IF blocktype = BlockType.Send
     THEN Decoded(SendBlocked(deserialize_int256(PayloadVector(data, g), g),
                              Window(data, 1 + MarshalledLen, TokenTypeLen, g)),
                  pastTag \/ pastVec
                  \/ 1 + MarshalledLen + TokenTypeLen > Len(data))
     ELSE IF blocktype \in KnownTags
     THEN Decoded(Plain(blocktype), pastTag)
     ELSE [kind |-> "noreturn", reason |-> NoBlock, oob |-> pastTag]

\* buffers from outside: empty, an unknown tag, truncated, over-long
ForeignWires ==
  {<< >>, <<ByteBase - 1>>, <<BlockType.Send + 1>>,
   <<BlockType.Inbox>>, <<BlockType.Send>>, <<BlockType.Halt, 0>>}
  \cup {Cut(SerializeBlockReason(r), 1) :
          r \in {InboxBlocked(MaxU256), SendBlocked(MaxU256, Tok(1, 0))}}

NoWire == [src |-> "none", bytes |-> << >>]

\* SerializeBlockReason(r): the machine's block reason goes to the wire
Block(r) ==
  /\ reason' = r
  /\ wire' = [src |-> "encoded", bytes |-> SerializeBlockReason(r)]
  /\ decoded' = NoOutcome
  /\ UNCHANGED <<ledgerVars, last, steps, pc, codecVars>>

\* bytes from outside are to be decoded
Receive(b) ==
  /\ reason' = NoBlock
  /\ wire' = [src |-> "external", bytes |-> b]
  /\ decoded' = NoOutcome
  /\ UNCHANGED <<ledgerVars, last, steps, pc, codecVars>>

\* deserializeBlockReason(wire).  After a read out of bounds, or when the
\* function returns nothing, the behaviour is undefined: the value built
\* from the stale bytes, some value left in the return slot, or a crash
Deserialize ==
  /\ wire.src # "none"
  /\ decoded.kind = "none"
  /\ \E g \in Garbage : \E d \in {deserializeBlockReason(wire.bytes, g)} :
        \/ /\ d.kind = "reason"
           /\ decoded' = d
        \/ /\ d.kind = "noreturn"
           /\ \E r \in PlainReasons :
                decoded' = [kind |-> "stale", reason |-> r, oob |-> d.oob]
        \/ /\ d.kind = "noreturn" \/ d.oob
           /\ decoded' = [kind |-> "crash", reason |-> NoBlock, oob |-> d.oob]
  /\ UNCHANGED <<ledgerVars, last, steps, pc, codecVars, reason, wire>>

\* BalanceTracker::BalanceTracker(): both collections empty
Init ==
  /\ tokenLookup = << >>
  /\ nftLookup = {}
  /\ last = NoOp
  /\ wrapped = FALSE
  /\ steps = 0
  /\ pc = "run"
  /\ buf = << >>
  /\ bufSrc = NoSource
  /\ reason = NoBlock
  /\ wire = NoWire
  /\ decoded = NoOutcome

Next ==
  \/ \E t \in TokenTypes, a \in Amounts : Add(t, a)
  \/ \E t \in TokenTypes, a \in Amounts : Spend(t, a)
  \/ \E t \in TokenTypes, a \in Amounts : CanSpend(t, a)
  \/ \E t \in TokenTypes : TokenValue(t)
  \/ \E t \in TokenTypes, a \in Amounts : HasNFT(t, a)

Spec == Init /\ [][Next]_vars

\* the ledger with its serialisation: add, spend, serialise, restore
NextCodec ==
  \/ \E t \in TokenTypes, a \in Amounts : AddStep(t, a, FALSE)
  \/ \E t \in TokenTypes, a \in Amounts : SpendStep(t, a, FALSE)
  \/ \E o \in Orders(DOMAIN tokenLookup) : Serialize(o)
  \/ \E b \in WellFormedBuffers \cup MalformedBuffers : Supply(b)
  \/ Restore

SpecCodec == Init /\ [][NextCodec]_vars

\* the block reason and its serialisation
NextBlock ==
  \/ \E r \in BlockReasons : Block(r)
  \/ \E b \in ForeignWires : Receive(b)
  \/ Deserialize

SpecBlock == Init /\ [][NextBlock]_vars

\* ------------------------------------------------------------- claims

\* C1: a spend of a fungible identity for more than its balance (zero when
\* it has no entry) returns false and leaves tokenLookup and nftLookup as
\* they were.
C1_SpendBeyondBalanceRejected ==
  [][(/\ last'.op = "spend"
      /\ isToken(last'.tok)
      /\ ~LeqU256(last'.amt, Inserted(tokenLookup, last'.tok)))
     => (/\ last'.ret = Returned(FALSE)
         /\ tokenLookup' = tokenLookup
         /\ nftLookup' = nftLookup)]_vars

\* C2: tokenValue of a fungible identity with no entry returns zero, so that
\* canSpend of it is true for the amount zero and false for any other.
C2_AbsentBalanceIsZero ==
  /\ (last.op = "tokenValue" /\ ~last.before.had) => last.ret = Value(Zero)
  /\ (last.op = "canSpend" /\ isToken(last.tok) /\ ~last.before.had)
       => last.ret = Returned(last.amt = Zero)

\* C3: an add whose sum does not fit 256 bits is fatal: no stored balance is
\* ever the sum with its carry dropped, so every balance is the exact sum of
\* what was added less what was spent.
C3_AddOverflowIsFatal ==
  /\ ~wrapped
  /\ (/\ last.op = "add"
      /\ isToken(last.tok)
      /\ AddU256(last.before.v, last.amt).out = 1) => pc # "run"

\* C4: add(t, a) then spend(t, a) on a fungible t: the spend returns true
\* and the balance of t is what it was before the add (zero without entry).
C4_AddThenSpendRestores ==
  [][(/\ last.op = "add"
      /\ isToken(last.tok)
      /\ last'.op = "spend"
      /\ last'.after = "add")
     => (/\ last'.ret = Returned(TRUE)
         /\ Inserted(tokenLookup', last.tok) = last.before.v)]_vars

\* C5: for a non-fungible identity t and id i: after add(t, i) the asset is
\* owned, and an add of an owned asset changes nothing; a spend right after
\* the add returns true and the asset is no longer owned; a spend right
\* after a spend returns false and changes nothing.
C5_NftLifecycle ==
  [][~isToken(last'.tok) =>
       /\ last'.op = "add"
            => /\ hasNFT(nftLookup', last'.tok, last'.amt)
               /\ hasNFT(nftLookup, last'.tok, last'.amt)
                    => nftLookup' = nftLookup /\ tokenLookup' = tokenLookup
       /\ (last'.op = "hasNFT" /\ last'.after = "add")
            => last'.ret = Returned(TRUE)
       /\ (last'.op = "spend" /\ last'.after = "add")
            => /\ last'.ret = Returned(TRUE)
               /\ ~hasNFT(nftLookup', last'.tok, last'.amt)
       /\ (last'.op = "hasNFT" /\ last'.after \in {"spend", "add,spend"})
            => last'.ret = Returned(FALSE)
       /\ (last'.op = "spend" /\ last'.after \in {"spend", "add,spend"})
            => /\ last'.ret = Returned(FALSE)
               /\ nftLookup' = nftLookup
               /\ tokenLookup' = tokenLookup]_vars

\* an asset was added, spent, and the second spend in a row was refused
C5_Witness ==
  /\ last.op = "spend"
  /\ ~isToken(last.tok)
  /\ last.after = "add,spend"
  /\ last.ret = Returned(FALSE)

\* C6: deserializeBlockReason(SerializeBlockReason(r)) is r, for each of the
\* six variants, the serialisation having the length of its variant.
C6_BlockReasonRoundTrip ==
  wire.src = "encoded" =>
    /\ Len(wire.bytes) = blockreason_type_length(reason.tag)
    /\ decoded.kind # "none"
         => decoded.kind = "reason" /\ decoded.reason = reason

\* C7: deserializeBlockReason fails with UnknownBlockReasonTag on an unknown
\* first byte, with TruncatedBlockReasonData on an empty buffer or one
\* shorter than its tag's length, never reads at or past the buffer's
\* length, and yields a block reason or one of these two errors.
C7_BlockReasonDecodeChecked ==
  decoded.kind # "none" =>
    /\ ~decoded.oob
    /\ decoded.kind \in {"reason", "UnknownBlockReasonTag",
                         "TruncatedBlockReasonData"}
    /\ Len(wire.bytes) = 0 => decoded.kind = "TruncatedBlockReasonData"
    /\ (Len(wire.bytes) > 0 /\ wire.bytes[1] \notin KnownTags)
         => decoded.kind = "UnknownBlockReasonTag"
    /\ (/\ Len(wire.bytes) > 0
        /\ wire.bytes[1] \in KnownTags
        /\ Len(wire.bytes) < blockreason_type_length(wire.bytes[1]))
         => decoded.kind = "TruncatedBlockReasonData"

C9_MalformedLedgerRejected ==
  [][(pc = "saved" /\ Malformed(buf) /\ last'.op = "restore")
     => (/\ last'.ret.kind = "MalformedLedgerData"
         /\ pc' # "undefined")]_vars

\* C10: every key of tokenLookup is a fungible identity and every key of
\* nftLookup has a non-fungible identity, whatever was added, spent or
\* restored, and whatever identities the restored entries carried.
C10_KindsSeparated ==
  /\ \A t \in DOMAIN tokenLookup : isToken(t)
  /\ \A k \in nftLookup : ~isToken(k.tokenType)

\* an entry with a non-fungible identity was restored, as an asset
C10_Witness ==
  /\ last.op = "restore"
  /\ last.src = "external"
  /\ last.ret.kind = "ok"
  /\ nftLookup # {}
  /\ DOMAIN tokenLookup = {}

=============================================================================
